---- MODULE Spec2Model ----
(***************************************************************************)
(* The CSUN campus map quiz of src/script.js: the round state machine,     *)
(* the timer and the high-score board.  The source file holds two variants *)
(* of the program: lines 1-421 keep the high scores in memory (top 5),     *)
(* lines 423-847 keep them in localStorage (top 10).  The variable         *)
(* `variant` says which one runs.                                          *)
(*                                                                         *)
(* Time is counted in clock units of one pacing delay (1500 ms).  Markers, *)
(* circles, prompt/status/score texts and the marker bounce timeout do not *)
(* feed back into the game state and are left out.                         *)
(***************************************************************************)
EXTENDS Integers, Sequences, FiniteSets

\* ---------------------------------------------------------------- bounds
MaxGames == 2       \* games started in one run of the page
MaxElapsed == 6     \* longest game, in clock units
MaxRecords == 6     \* direct saveScore calls on the in-memory board
MaxStoredRecords == 2 \* direct saveScore calls on the stored board
MaxDistance == 51   \* farthest guess, in meters
MaxTimerStarts == 3 \* direct startTimer calls in the timer specification
MaxClock == 4       \* last clock reading in the timer specification

\* ------------------------------------------------------------- constants
NumLocations == 5
CORRECT_DISTANCE_METERS == 50
ROUND_ADVANCE_DELAY == 1
MemoryCapacity == 5
StorageCapacity == 10

\* JavaScript null; every number of the program is >= 0 in the model
NULL == 0 - 1

Variants == {"memory", "persisted"}
Distances == {CORRECT_DISTANCE_METERS, MaxDistance}

VARIABLES
  variant,          \* which of the two programs of the file runs
  currentIndex,     \* let currentIndex
  correctCount,     \* let correctCount
  guessingEnabled,  \* let guessingEnabled
  startBtnDisabled, \* startBtn.disabled
  timerInterval,    \* let timerInterval: NULL or an interval handle
  startTime,        \* let startTime: NULL or a performance.now() reading
  intervals,        \* interval handles registered with the browser
  nextHandle,       \* next handle setInterval returns
  timeouts,         \* pending setTimeout callbacks, in scheduling order
  now,              \* the clock
  timerText,        \* timerEl.textContent: NULL or the seconds shown
  highScores,       \* let highScores (memory variant)
  storage,          \* localStorage[SCORES_KEY] (persisted variant)
  highScoreText,    \* highScoreEl content
  guessLog,         \* history: <<index, distance>> of the guesses evaluated in this game
  endCount,         \* history: endGame runs since the last startGame
  gamesStarted,     \* history: startGame runs
  records,          \* history: direct saveScore calls
  dropped,          \* history: the entries saveScore cut off the board
  returned,         \* history: the value the last stopTimer call returned
  lastOp,           \* history: the handler that ran last
  threw             \* history: the handler that ran last threw

histVars == <<dropped, returned>>
gameVars == <<currentIndex, correctCount, guessingEnabled>>
timerVars == <<timerInterval, startTime, intervals, nextHandle, timerText>>
boardVars == <<highScores, storage, highScoreText>>
vars == <<variant, currentIndex, correctCount, guessingEnabled, startBtnDisabled,
          timerInterval, startTime, intervals, nextHandle, timeouts, now, timerText,
          highScores, storage, highScoreText, guessLog, endCount, gamesStarted,
          records, dropped, returned, lastOp, threw>>

Min(a, b) == IF a < b THEN a ELSE b

\* JavaScript truthiness of a number-or-null
Truthy(x) == x # NULL /\ x # 0

\* ------------------------------------------------------------ score board
\* typeof timeSeconds === "number" ? timeSeconds : null
NewEntry(correct, total, timeSeconds, timestamp) ==
  [correct |-> correct, total |-> total,
   timeSeconds |-> IF timeSeconds # NULL THEN timeSeconds ELSE NULL,
   timestamp |-> timestamp]

\* mutant: the comparator without its null tests; null - t is 0 - t in JavaScript
CompareScoresNullAsZero(a, b) ==
  IF b.correct # a.correct THEN b.correct - a.correct
  ELSE (IF a.timeSeconds = NULL THEN 0 ELSE a.timeSeconds)
       - (IF b.timeSeconds = NULL THEN 0 ELSE b.timeSeconds)

\* the comparator handed to Array.prototype.sort
CompareScores(a, b) ==
  IF b.correct # a.correct THEN b.correct - a.correct
  ELSE IF a.timeSeconds = NULL /\ b.timeSeconds = NULL THEN 0
  ELSE IF a.timeSeconds = NULL THEN 1
  ELSE IF b.timeSeconds = NULL THEN 0 - 1
  ELSE a.timeSeconds - b.timeSeconds

\* mutant: an unstable sort, x goes before the elements it ties with
RECURSIVE InsertSortedBeforeTies(_, _)
InsertSortedBeforeTies(sorted, x) ==
  IF sorted = <<>> THEN <<x>>
  ELSE IF CompareScores(x, Head(sorted)) <= 0 THEN <<x>> \o sorted
  ELSE <<Head(sorted)>> \o InsertSortedBeforeTies(Tail(sorted), x)

\* Array.prototype.sort is stable: x goes before the first element it beats
RECURSIVE InsertSorted(_, _)
InsertSorted(sorted, x) ==
  IF sorted = <<>> THEN <<x>>
  ELSE IF CompareScores(x, Head(sorted)) < 0 THEN <<x>> \o sorted
  ELSE <<Head(sorted)>> \o InsertSorted(Tail(sorted), x)

RECURSIVE SortScores(_)
SortScores(scores) ==
  IF scores = <<>> THEN <<>>
  ELSE InsertSorted(SortScores(SubSeq(scores, 1, Len(scores) - 1)), scores[Len(scores)])

\* mutant: slice(-n), the last n entries kept
SliceLast(scores, n) ==
  SubSeq(scores, Len(scores) - Min(Len(scores), n) + 1, Len(scores))

\* mutant: the slice left out
SliceAll(scores, n) == scores

\* scores.slice(0, n)
Slice(scores, n) == SubSeq(scores, 1, Min(Len(scores), n))

\* push, sort, slice of saveScore
PushSortSlice(scores, entry, capacity) ==
  Slice(SortScores(Append(scores, entry)), capacity)

\* renderScoreBoard: the text put in highScoreEl
RenderLine(s) == <<s.correct, s.total, s.timeSeconds>>
renderScoreBoard(scores) ==
  IF Len(scores) = 0 THEN [kind |-> "none yet", lines |-> <<>>]
  ELSE [kind |-> "list", lines |-> [i \in 1..Len(scores) |-> RenderLine(scores[i])]]

\* localStorage contents: no item, text that JSON.parse rejects, JSON that is
\* no array, or the JSON of an array of entries
NoItem == [kind |-> "absent", value |-> <<>>]
Garbage == [kind |-> "garbage", value |-> <<>>]
NotArray == [kind |-> "object", value |-> <<>>]
Stringify(scores) == [kind |-> "array", value |-> scores]

\* the entries a full board of earlier sessions holds, best first
Prefilled ==
  [i \in 1..(StorageCapacity - 1) |->
     [correct |-> NumLocations - ((i - 1) \div 3), total |-> NumLocations,
      timeSeconds |-> NumLocations + ((i - 1) % 3), timestamp |-> 0]]

InitStorages == {NoItem, Garbage, NotArray, Stringify(Prefilled)}

\* loadScoresFromStorage of the persisted variant: the text it leaves in highScoreEl
LoadDisplay(saved, getFails) ==
  IF getFails THEN [kind |-> "Unavailable", lines |-> <<>>]
  ELSE IF saved.kind = "absent" THEN [kind |-> "N/A", lines |-> <<>>]
  ELSE IF saved.kind = "garbage" THEN [kind |-> "Unavailable", lines |-> <<>>]
  ELSE IF saved.kind # "array" \/ Len(saved.value) = 0 THEN [kind |-> "N/A", lines |-> <<>>]
  ELSE renderScoreBoard(saved.value)

\* saveScore of the in-memory variant: the new highScores and highScoreEl
SaveScoreMemory(scores, correct, total, timeSeconds, timestamp) ==
  LET kept == PushSortSlice(scores, NewEntry(correct, total, timeSeconds, timestamp),
                            MemoryCapacity)
  IN  [scores |-> kept, text |-> renderScoreBoard(kept), stored |-> TRUE,
       threw |-> FALSE]

\* mutant: saveScore of the persisted variant without its try / catch
SaveScorePersistedNoCatch(saved, text, correct, total, timeSeconds, timestamp, getFails, setFails) ==
  IF getFails \/ saved.kind = "garbage"
  THEN [scores |-> saved, text |-> text, stored |-> FALSE, threw |-> TRUE]
  ELSE LET parsed == IF saved.kind = "array" THEN saved.value ELSE <<>>
           kept == PushSortSlice(parsed, NewEntry(correct, total, timeSeconds, timestamp),
                                 StorageCapacity)
       IN  IF setFails
           THEN [scores |-> saved, text |-> text, stored |-> FALSE, threw |-> TRUE]
           ELSE [scores |-> Stringify(kept), text |-> renderScoreBoard(kept),
                 stored |-> TRUE, threw |-> FALSE]

\* saveScore of the persisted variant: the new stored item and highScoreEl.
\* getFails / setFails: localStorage.getItem / setItem throws; the catch block
\* swallows that and a JSON.parse error alike.
SaveScorePersisted(saved, text, correct, total, timeSeconds, timestamp, getFails, setFails) ==
  IF getFails \/ saved.kind = "garbage"
  THEN [scores |-> saved, text |-> text, stored |-> FALSE, threw |-> FALSE]
  ELSE LET parsed == IF saved.kind = "array" THEN saved.value ELSE <<>>
           kept == PushSortSlice(parsed, NewEntry(correct, total, timeSeconds, timestamp),
                                 StorageCapacity)
       IN  IF setFails
           THEN [scores |-> saved, text |-> text, stored |-> FALSE, threw |-> FALSE]
           ELSE [scores |-> Stringify(kept), text |-> renderScoreBoard(kept),
                 stored |-> TRUE, threw |-> FALSE]

\* the entries of a sequence
Entries(scores) == {scores[i] : i \in 1..Len(scores)}

\* history: the entries a successful saveScore cut off
CutOff(before, entry, after) == Entries(Append(before, entry)) \ Entries(after)

\* the leaderboard a reader of the board gets: highScores, or the stored array
\* (no item, unparseable text and non-arrays read as no scores)
Leaderboard ==
  IF variant = "memory" THEN highScores
  ELSE IF storage.kind = "array" THEN storage.value ELSE <<>>

\* ------------------------------------------------------------------ timer
\* mutant: startTimer and stopTimer without clearInterval
ClearNothing == intervals

\* clearInterval(timerInterval) when timerInterval is set
ClearTimerInterval ==
  IF Truthy(timerInterval) THEN intervals \ {timerInterval} ELSE intervals

startTimer ==
  /\ intervals' = ClearTimerInterval \cup {nextHandle}
  /\ startTime' = now
  /\ timerInterval' = nextHandle
  /\ nextHandle' = nextHandle + 1
  /\ timerText' = timerText

\* mutant: stopTimer without startTime = null
stopTimerKeepsStartTime ==
  IF ~Truthy(startTime)
  THEN UNCHANGED timerVars
  ELSE /\ intervals' = ClearTimerInterval
       /\ timerInterval' = IF Truthy(timerInterval) THEN NULL ELSE timerInterval
       /\ timerText' = now - startTime
       /\ UNCHANGED <<startTime, nextHandle>>

\* mutant: stopTimer without its clearInterval
stopTimerKeepsInterval ==
  IF ~Truthy(startTime)
  THEN UNCHANGED timerVars
  ELSE /\ startTime' = NULL
       /\ timerText' = now - startTime
       /\ UNCHANGED <<intervals, timerInterval, nextHandle>>

\* the value stopTimer returns
StopTimerResult == IF Truthy(startTime) THEN now - startTime ELSE NULL

stopTimer ==
  IF ~Truthy(startTime)
  THEN UNCHANGED timerVars
  ELSE /\ intervals' = ClearTimerInterval
       /\ timerInterval' = IF Truthy(timerInterval) THEN NULL ELSE timerInterval
       /\ startTime' = NULL
       /\ timerText' = now - startTime
       /\ nextHandle' = nextHandle

\* ------------------------------------------------------------- game logic
\* mutant: the threshold taken as exclusive
isCorrectStrict(distance) == distance < CORRECT_DISTANCE_METERS

isCorrect(distance) == distance <= CORRECT_DISTANCE_METERS

\* mutant: the listener without its guard
ListenerAcceptsAlways == TRUE

\* the test of the dblclick listener
ListenerAccepts == guessingEnabled

\* mutant: startRound scheduled after every guess, the last one included
NextCallbackAlwaysRound(index) == "startRound"

\* mutant: the two branches after currentIndex++ swapped
NextCallbackSwapped(index) == IF index < NumLocations THEN "endGame" ELSE "startRound"

\* the callback handleGuess schedules once currentIndex has moved to `index`
NextCallback(index) == IF index < NumLocations THEN "startRound" ELSE "endGame"

Init ==
  /\ variant \in Variants
  /\ currentIndex = 0
  /\ correctCount = 0
  /\ guessingEnabled = FALSE
  /\ startBtnDisabled = FALSE
  /\ timerInterval = NULL
  /\ startTime = NULL
  /\ intervals = {}
  /\ nextHandle = 1
  /\ timeouts = <<>>
  /\ now = 1
  /\ timerText = NULL
  /\ highScores = <<>>
  /\ storage \in IF variant = "memory" THEN {NoItem} ELSE InitStorages
  /\ \E getFails \in BOOLEAN :
       highScoreText = IF variant = "memory" THEN renderScoreBoard(highScores)
                       ELSE LoadDisplay(storage, getFails)
  /\ guessLog = <<>>
  /\ endCount = 0
  /\ gamesStarted = 0
  /\ records = 0
  /\ dropped = {}
  /\ returned = NULL
  /\ lastOp = "initMap"
  /\ threw = FALSE

\* endGame; the persisted variant (lines 641-656) does not call saveScore
endGame ==
  /\ guessingEnabled' = FALSE
  /\ startBtnDisabled' = FALSE
  /\ stopTimer
  /\ IF variant = "memory"
     THEN LET r == SaveScoreMemory(highScores, correctCount, NumLocations,
                                   StopTimerResult, now)
          IN  /\ highScores' = r.scores
              /\ highScoreText' = r.text
              /\ dropped' = dropped \cup
                   CutOff(highScores, NewEntry(correctCount, NumLocations,
                                               StopTimerResult, now), r.scores)
     ELSE UNCHANGED <<highScores, highScoreText, dropped>>
  /\ storage' = storage
  /\ returned' = StopTimerResult
  /\ endCount' = endCount + 1
  /\ UNCHANGED <<currentIndex, correctCount>>

startRound ==
  IF currentIndex >= NumLocations
  THEN endGame
  ELSE /\ guessingEnabled' = TRUE
       /\ UNCHANGED <<currentIndex, correctCount, startBtnDisabled, timerVars,
                      boardVars, endCount, histVars>>

\* mutant: startGame without startTimer()
StartGameNoTimer ==
  /\ ~startBtnDisabled
  /\ gamesStarted < MaxGames
  /\ currentIndex' = 0
  /\ correctCount' = 0
  /\ startBtnDisabled' = TRUE
  /\ guessingEnabled' = TRUE
  /\ guessLog' = <<>>
  /\ endCount' = 0
  /\ gamesStarted' = gamesStarted + 1
  /\ lastOp' = "startGame"
  /\ threw' = FALSE
  /\ UNCHANGED <<variant, timerVars, timeouts, now, boardVars, records, histVars>>

\* mutant: startGame without the reset of correctCount
StartGameKeepsScore ==
  /\ ~startBtnDisabled
  /\ gamesStarted < MaxGames
  /\ currentIndex' = 0
  /\ startBtnDisabled' = TRUE
  /\ startTimer
  /\ guessingEnabled' = TRUE
  /\ guessLog' = <<>>
  /\ endCount' = 0
  /\ gamesStarted' = gamesStarted + 1
  /\ lastOp' = "startGame"
  /\ threw' = FALSE
  /\ UNCHANGED <<variant, correctCount, timeouts, now, boardVars, records, histVars>>

\* mutant: startGame without startBtn.disabled = true
StartGameLeavesButton ==
  /\ ~startBtnDisabled
  /\ gamesStarted < MaxGames
  /\ currentIndex' = 0
  /\ correctCount' = 0
  /\ startTimer
  /\ guessingEnabled' = TRUE
  /\ guessLog' = <<>>
  /\ endCount' = 0
  /\ gamesStarted' = gamesStarted + 1
  /\ lastOp' = "startGame"
  /\ threw' = FALSE
  /\ UNCHANGED <<variant, startBtnDisabled, timeouts, now, boardVars, records,
                 histVars>>

\* click on the start button; a disabled button delivers no click.
\* LOCATIONS is not empty, so the startRound called here takes its second branch.
StartGame ==
  /\ ~startBtnDisabled
  /\ gamesStarted < MaxGames
  /\ currentIndex' = 0
  /\ correctCount' = 0
  /\ startBtnDisabled' = TRUE
  /\ startTimer
  /\ guessingEnabled' = TRUE
  /\ guessLog' = <<>>
  /\ endCount' = 0
  /\ gamesStarted' = gamesStarted + 1
  /\ lastOp' = "startGame"
  /\ threw' = FALSE
  /\ UNCHANGED <<variant, timeouts, now, boardVars, records, histVars>>

\* mutant: handleGuess without its setTimeout
handleGuessNoCallback(distance) ==
  IF currentIndex >= NumLocations
  THEN /\ guessingEnabled' = FALSE
       /\ threw' = TRUE
       /\ UNCHANGED <<currentIndex, correctCount, timeouts, guessLog>>
  ELSE /\ guessingEnabled' = FALSE
       /\ correctCount' = IF isCorrect(distance) THEN correctCount + 1 ELSE correctCount
       /\ currentIndex' = currentIndex + 1
       /\ timeouts' = timeouts
       /\ guessLog' = Append(guessLog, <<currentIndex, distance>>)
       /\ threw' = FALSE

\* mutant: handleGuess without guessingEnabled = false
handleGuessLeavesEnabled(distance) ==
  IF currentIndex >= NumLocations
  THEN /\ threw' = TRUE
       /\ UNCHANGED <<guessingEnabled, currentIndex, correctCount, timeouts, guessLog>>
  ELSE /\ guessingEnabled' = guessingEnabled
       /\ correctCount' = IF isCorrect(distance) THEN correctCount + 1 ELSE correctCount
       /\ currentIndex' = currentIndex + 1
       /\ timeouts' = Append(timeouts, [fn |-> NextCallback(currentIndex + 1),
                                        due |-> now + ROUND_ADVANCE_DELAY])
       /\ guessLog' = Append(guessLog, <<currentIndex, distance>>)
       /\ threw' = FALSE

\* handleGuess; past the last location LOCATIONS[currentIndex] is undefined and
\* reading loc.position throws after guessingEnabled was cleared
handleGuess(distance) ==
  IF currentIndex >= NumLocations
  THEN /\ guessingEnabled' = FALSE
       /\ threw' = TRUE
       /\ UNCHANGED <<currentIndex, correctCount, timeouts, guessLog>>
  ELSE /\ guessingEnabled' = FALSE
       /\ correctCount' = IF isCorrect(distance) THEN correctCount + 1 ELSE correctCount
       /\ currentIndex' = currentIndex + 1
       /\ timeouts' = Append(timeouts, [fn |-> NextCallback(currentIndex + 1),
                                        due |-> now + ROUND_ADVANCE_DELAY])
       /\ guessLog' = Append(guessLog, <<currentIndex, distance>>)
       /\ threw' = FALSE

\* the dblclick listener of the map, with the distance of the clicked point
\* from the current target
DblClick ==
  \E distance \in Distances :
    /\ IF ListenerAccepts
       THEN /\ handleGuess(distance)
            /\ lastOp' = "handleGuess"
       ELSE /\ lastOp' = "ignoredClick"
            /\ threw' = FALSE
            /\ UNCHANGED <<gameVars, timeouts, guessLog>>
    /\ UNCHANGED <<variant, startBtnDisabled, timerVars, now, boardVars, endCount,
                   gamesStarted, records, histVars>>

TimeoutDue == timeouts # <<>> /\ Head(timeouts).due <= now

\* the setTimeout(startRound, 1500) callback
RoundAdvance ==
  /\ TimeoutDue
  /\ Head(timeouts).fn = "startRound"
  /\ timeouts' = Tail(timeouts)
  /\ startRound
  /\ lastOp' = "startRound"
  /\ threw' = FALSE
  /\ UNCHANGED <<variant, now, guessLog, gamesStarted, records>>

\* the setTimeout(endGame, 1500) callback
EndGameTimeout ==
  /\ TimeoutDue
  /\ Head(timeouts).fn = "endGame"
  /\ timeouts' = Tail(timeouts)
  /\ endGame
  /\ lastOp' = "endGame"
  /\ threw' = FALSE
  /\ UNCHANGED <<variant, now, guessLog, gamesStarted, records>>

\* updateTimerDisplay
updateTimerDisplay(time) ==
  IF ~Truthy(startTime) THEN timerText' = timerText
  ELSE timerText' = time - startTime

\* a game may still take a clock unit: a callback is waiting for its time, or
\* the player waits and the rounds left still fit in MaxElapsed
MayTick ==
  /\ Truthy(startTime)
  /\ \/ timeouts # <<>> /\ ~TimeoutDue
     \/ /\ guessingEnabled
        /\ (now - startTime) + (NumLocations - currentIndex) < MaxElapsed

\* one clock unit passes; the 100 ms interval callbacks registered have run
Tick ==
  /\ MayTick
  /\ now' = now + 1
  /\ IF intervals # {} THEN updateTimerDisplay(now + 1) ELSE timerText' = timerText
  /\ lastOp' = "tick"
  /\ threw' = FALSE
  /\ UNCHANGED <<variant, gameVars, startBtnDisabled, timerInterval, startTime,
                 intervals, nextHandle, timeouts, boardVars, guessLog, endCount,
                 gamesStarted, records, histVars>>

Next == StartGame \/ DblClick \/ RoundAdvance \/ EndGameTimeout \/ Tick

Spec == Init /\ [][Next]_vars

\* a double click while guessing is enabled: the player's guess
Guess == DblClick /\ guessingEnabled

\* the setTimeout(endGame, 1500) callback is at the head of the queue and due
EndGameDue == TimeoutDue /\ Head(timeouts).fn = "endGame"

\* the step that runs the endGame callback, told by its guard and its count:
\* the steps of Next that satisfy it are the steps of EndGameTimeout, and it is
\* enabled exactly when EndGameTimeout is (EndGameFiresIsEndGameTimeout)
EndGameFires == EndGameDue /\ endCount' = endCount + 1

\* the game with its scheduling: the clock advances, the event loop runs every
\* setTimeout callback that is due, and the player guesses when asked to
LiveSpec ==
  /\ Init /\ [][Next]_vars
  /\ WF_vars(Tick)
  /\ WF_vars(RoundAdvance)
  /\ WF_endCount(EndGameFires)
  /\ WF_vars(Guess)

\* ------------------------------------------------- the score board alone
\* saveScore called with the result of a game: the board of the variant takes
\* the entry, and time moves on before the next call
saveScore(correct, timeSeconds) ==
  /\ records < (IF variant = "memory" THEN MaxRecords ELSE MaxStoredRecords)
  /\ IF variant = "memory"
     THEN LET r == SaveScoreMemory(highScores, correct, NumLocations, timeSeconds, now)
          IN  /\ highScores' = r.scores
              /\ highScoreText' = r.text
              /\ storage' = storage
              /\ dropped' = dropped \cup
                   CutOff(highScores, NewEntry(correct, NumLocations, timeSeconds, now),
                          r.scores)
              /\ threw' = r.threw
              /\ lastOp' = "saveScore"
     ELSE \E getFails \in BOOLEAN, setFails \in BOOLEAN :
            LET r == SaveScorePersisted(storage, highScoreText, correct, NumLocations,
                                        timeSeconds, now, getFails, setFails)
            IN  /\ storage' = r.scores
                /\ highScoreText' = r.text
                /\ highScores' = highScores
                /\ dropped' = IF r.stored
                              THEN dropped \cup
                                   CutOff(Leaderboard,
                                          NewEntry(correct, NumLocations, timeSeconds, now),
                                          r.scores.value)
                              ELSE dropped
                /\ threw' = r.threw
                /\ lastOp' = IF getFails \/ setFails THEN "saveScore, storage failing"
                             ELSE "saveScore"
  /\ records' = records + 1
  /\ now' = now + 1
  /\ UNCHANGED <<variant, gameVars, startBtnDisabled, timerVars, timeouts, guessLog,
                 endCount, gamesStarted, returned>>

RecordCorrects == {NumLocations - 1, NumLocations}
RecordTimes == {NumLocations * ROUND_ADVANCE_DELAY, MaxElapsed}

\* a result with the elapsed time stopTimer returned
RecordTimed == \E correct \in RecordCorrects, t \in RecordTimes : saveScore(correct, t)

\* a result whose timer never ran: stopTimer returned null
RecordUntimed == \E correct \in RecordCorrects : saveScore(correct, NULL)

TimedScoreSpec == Init /\ [][RecordTimed]_vars

ScoreSpec == Init /\ [][RecordTimed \/ RecordUntimed]_vars

\* ------------------------------------- the game with a failing storage
\* saveScore of the persisted variant called once between games, with a perfect
\* result; its storage may fail or hold malformed data
StoredRecord ==
  /\ variant = "persisted"
  /\ ~startBtnDisabled
  /\ records = 0
  /\ saveScore(NumLocations, NumLocations * ROUND_ADVANCE_DELAY)

PersistInit == Init /\ variant = "persisted"

PersistSpec == PersistInit /\ [][Next \/ StoredRecord]_vars

\* ------------------------------------------------------- the timer alone
\* startTimer called whatever the state of the timer
CallStartTimer ==
  /\ nextHandle <= MaxTimerStarts
  /\ startTimer
  /\ lastOp' = "startTimer"
  /\ threw' = FALSE
  /\ UNCHANGED <<variant, gameVars, startBtnDisabled, timeouts, now, boardVars,
                 guessLog, endCount, gamesStarted, records, histVars>>

\* stopTimer called whatever the state of the timer
CallStopTimer ==
  /\ stopTimer
  /\ returned' = StopTimerResult
  /\ lastOp' = "stopTimer"
  /\ threw' = FALSE
  /\ UNCHANGED <<variant, gameVars, startBtnDisabled, timeouts, now, boardVars,
                 guessLog, endCount, gamesStarted, records, dropped>>

\* one clock unit passes; the 100 ms interval callbacks registered have run
ClockTick ==
  /\ now < MaxClock
  /\ now' = now + 1
  /\ IF intervals # {} THEN updateTimerDisplay(now + 1) ELSE timerText' = timerText
  /\ lastOp' = "tick"
  /\ threw' = FALSE
  /\ UNCHANGED <<variant, gameVars, startBtnDisabled, timerInterval, startTime,
                 intervals, nextHandle, timeouts, boardVars, guessLog, endCount,
                 gamesStarted, records, histVars>>

TimerSpec == Init /\ [][CallStartTimer \/ CallStopTimer \/ ClockTick]_vars

\* ================================================================ claims
\* the indices evaluated in the current game
Evaluated == {guessLog[i][1] : i \in 1..Len(guessLog)}

\* the guesses of the current game that were within the threshold
WithinThreshold ==
  {i \in 1..Len(guessLog) : guessLog[i][2] <= CORRECT_DISTANCE_METERS}

\* C1: in every reachable state 0 <= currentIndex <= len(LOCATIONS) and
\* 0 <= correctCount <= currentIndex.
C1_IndexAndCountInRange ==
  /\ 0 <= currentIndex /\ currentIndex <= NumLocations
  /\ 0 <= correctCount /\ correctCount <= currentIndex

\* a second game is running after a first one that was all correct
C1_Witness ==
  /\ gamesStarted = 2
  /\ currentIndex = 1
  /\ correctCount = 1
  /\ highScores # <<>> /\ highScores[1].correct = NumLocations

\* C2: guessingEnabled implies that currentIndex is below len(LOCATIONS) and was
\* not evaluated yet in this game; guessing is disabled before the first
\* startGame, while a pacing callback is pending and after endGame.
C2_EnabledOnlyOnUnresolvedRound ==
  /\ guessingEnabled => (currentIndex < NumLocations /\ currentIndex \notin Evaluated)
  /\ gamesStarted = 0 => ~guessingEnabled
  /\ timeouts # <<>> => ~guessingEnabled
  /\ endCount > 0 => ~guessingEnabled

\* the last round is open for a guess, the four before it are evaluated
C2_Witness ==
  /\ guessingEnabled
  /\ currentIndex = NumLocations - 1
  /\ Evaluated = 0..(NumLocations - 2)

\* C3: a double click that arrives while guessingEnabled is false changes
\* neither currentIndex, correctCount, guessingEnabled, the timer, the pending
\* callbacks nor the leaderboard, and raises no error.
C3_IgnoredClickIsNoOp ==
  [][(~guessingEnabled /\ lastOp' \in {"handleGuess", "ignoredClick"})
       => /\ lastOp' = "ignoredClick"
          /\ ~threw'
          /\ UNCHANGED <<currentIndex, correctCount, guessingEnabled, timerInterval,
                         startTime, intervals, timeouts, highScores, storage,
                         highScoreText, guessLog>>]_vars

\* a double click was ignored during the pacing delay
C3_Witness ==
  /\ lastOp = "ignoredClick"
  /\ timeouts # <<>>
  /\ ~guessingEnabled

\* C4: after startGame and k accepted guesses currentIndex = k and correctCount
\* is the number of those guesses at a distance <= 50, the bound included.
C4_CountMatchesGuesses ==
  /\ currentIndex = Len(guessLog)
  /\ correctCount = Cardinality(WithinThreshold)
  /\ \A i \in 1..Len(guessLog) : guessLog[i][1] = i - 1

\* five guesses, some exactly at 50 m and some beyond, three of them correct
C4_Witness ==
  /\ Len(guessLog) = NumLocations
  /\ correctCount = 3
  /\ \E i \in 1..Len(guessLog) : guessLog[i][2] = CORRECT_DISTANCE_METERS
  /\ \E i \in 1..Len(guessLog) : guessLog[i][2] > CORRECT_DISTANCE_METERS

\* C5: an accepted guess for round i disables guessing and schedules one
\* callback; guessing stays disabled while it is pending; when it fires, round
\* i+1 becomes active if i+1 < len(LOCATIONS), otherwise endGame runs; a round
\* is only ever activated at the index after the last evaluated one.
C5_AdvanceAfterDelay ==
  [][/\ lastOp' = "handleGuess"
          => (~guessingEnabled' /\ currentIndex' = currentIndex + 1
              /\ Len(timeouts') = Len(timeouts) + 1)
     /\ timeouts' # <<>> => ~guessingEnabled'
     /\ Len(timeouts') < Len(timeouts)
          => IF currentIndex < NumLocations
             THEN guessingEnabled' /\ currentIndex' = currentIndex /\ endCount' = endCount
             ELSE ~guessingEnabled' /\ endCount' = endCount + 1 /\ ~startBtnDisabled'
     /\ (~guessingEnabled /\ guessingEnabled')
          => currentIndex' = IF guessLog' = <<>> THEN 0
                             ELSE guessLog'[Len(guessLog')][1] + 1]_vars

\* the callback of the fourth guess has fired and opened the last round
C5_Witness ==
  /\ lastOp = "startRound"
  /\ guessingEnabled
  /\ currentIndex = NumLocations - 1
  /\ timeouts = <<>>

\* the capacity of the board of the running variant
Capacity == IF variant = "memory" THEN MemoryCapacity ELSE StorageCapacity

\* the entry endGame owes the board: the score, the catalog size, the time elapsed
EndGameEntry == NewEntry(correctCount, NumLocations, now - startTime, now)

\* C6: every run of endGame leaves the leaderboard equal to the previous one
\* with the entry {correctCount, len(LOCATIONS), elapsed} inserted, sorted by the
\* ranking order and cut to the capacity, in both variants.
C6_EndGameRecordsResult ==
  [][endCount' = endCount + 1
       => Leaderboard' = Slice(SortScores(Append(Leaderboard, EndGameEntry)), Capacity)]_vars

\* C6 for the in-memory variant alone
C6_MemoryEndGameRecordsResult ==
  [][(variant = "memory" /\ endCount' = endCount + 1)
       => Leaderboard' = Slice(SortScores(Append(Leaderboard, EndGameEntry)), Capacity)]_vars

\* C7: after endGame the timer is stopped (no interval registered, no start
\* instant), guessing is disabled and the start button is enabled; currentIndex
\* and correctCount are as before.
C7_EndGameStopsEverything ==
  [][endCount' = endCount + 1
       => /\ timerInterval' = NULL /\ intervals' = {} /\ startTime' = NULL
          /\ ~guessingEnabled'
          /\ ~startBtnDisabled'
          /\ UNCHANGED <<currentIndex, correctCount>>]_vars

\* endGame has run after a game with a running timer
C7_Witness ==
  /\ lastOp = "endGame"
  /\ endCount = 1
  /\ currentIndex = NumLocations
  /\ timerText >= NumLocations * ROUND_ADVANCE_DELAY
  /\ startTime = NULL /\ intervals = {}

\* C8: right after startGame currentIndex = 0, correctCount = 0, guessing is
\* enabled, the timer runs and the start button is disabled; startGame runs only
\* with the button enabled, and the button stays disabled until endGame runs.
C8_StartGameResetsAndLocks ==
  [][/\ gamesStarted' # gamesStarted
          => /\ ~startBtnDisabled
             /\ currentIndex' = 0 /\ correctCount' = 0 /\ guessingEnabled'
             /\ startTime' = now /\ Truthy(startTime')
             /\ timerInterval' \in intervals'
             /\ startBtnDisabled'
     /\ (startBtnDisabled /\ ~startBtnDisabled') => endCount' = endCount + 1
     /\ (gamesStarted' > 0 /\ endCount' = 0) => startBtnDisabled']_vars

\* a second game was started from the game-over state of the first
C8_Witness ==
  /\ lastOp = "startGame"
  /\ gamesStarted = 2
  /\ currentIndex = 0 /\ correctCount = 0 /\ guessingEnabled /\ startBtnDisabled
  /\ Truthy(startTime)

\* C9: the leaderboard never holds more than its capacity (5 in memory, 10
\* stored) and is sorted best first: of two adjacent entries the earlier has
\* more correct answers, or as many and a recorded time not above the later's.
C9_BoundedAndSorted ==
  /\ Len(Leaderboard) <= Capacity
  /\ \A i \in 1..(Len(Leaderboard) - 1) :
       LET a == Leaderboard[i]
           b == Leaderboard[i + 1]
       IN  \/ a.correct > b.correct
           \/ /\ a.correct = b.correct
              /\ a.timeSeconds # NULL /\ b.timeSeconds # NULL
              /\ a.timeSeconds <= b.timeSeconds

\* more results than the in-memory board holds were recorded, the last one a
\* better one than an earlier one
C9_Witness ==
  /\ variant = "memory"
  /\ records > MemoryCapacity
  /\ Len(highScores) = MemoryCapacity
  /\ highScores[1].timestamp > highScores[2].timestamp

\* C10: an entry without a recorded time is never ahead of a timed entry with
\* the same number of correct answers, whatever the insertion order; ranking it
\* raises no error.
C10_UntimedNeverAhead ==
  /\ ~threw
  /\ \A i, j \in 1..Len(Leaderboard) :
       (i < j /\ Leaderboard[i].correct = Leaderboard[j].correct)
         => ~(Leaderboard[i].timeSeconds = NULL /\ Leaderboard[j].timeSeconds # NULL)

\* an untimed entry stands behind a timed one that was recorded after it
C10_Witness ==
  \E i, j \in 1..Len(Leaderboard) :
    /\ i < j
    /\ Leaderboard[i].correct = Leaderboard[j].correct
    /\ Leaderboard[i].timeSeconds # NULL
    /\ Leaderboard[j].timeSeconds = NULL
    /\ Leaderboard[j].timestamp < Leaderboard[i].timestamp

\* a ranks strictly better than b: more correct, or as many and faster, a timed
\* entry being faster than an untimed one
Better(a, b) ==
  \/ a.correct > b.correct
  \/ /\ a.correct = b.correct
     /\ a.timeSeconds # NULL
     /\ (b.timeSeconds = NULL \/ a.timeSeconds < b.timeSeconds)

\* C11: once more entries were recorded than the board holds, the board holds
\* exactly its capacity, and no entry that was cut off ranks strictly better
\* than an entry that was kept.
C11_TruncationKeepsBest ==
  /\ dropped # {} => Len(Leaderboard) = Capacity
  /\ Len(Leaderboard) <= Capacity
  /\ \A d \in dropped : \A k \in Entries(Leaderboard) : ~Better(d, k)

\* the in-memory board is full and an older entry was cut off to keep a newer,
\* better one
C11_Witness ==
  /\ variant = "memory"
  /\ dropped # {}
  /\ Len(highScores) = MemoryCapacity
  /\ \E k \in Entries(highScores) : \A d \in dropped : k.timestamp > d.timestamp

\* C12: stopTimer on a timer that is not running returns null, raises nothing
\* and leaves the timer as it was; on a running timer it returns a number,
\* cancels the interval and leaves the timer not running, so that a second stop
\* in a row returns null.
C12_StopTimerContract ==
  [][lastOp' = "stopTimer"
       => /\ ~threw'
          /\ IF Truthy(startTime)
             THEN /\ returned' # NULL /\ returned' = now - startTime
                  /\ intervals' = {} /\ timerInterval' = NULL /\ startTime' = NULL
             ELSE /\ returned' = NULL
                  /\ UNCHANGED timerVars
          /\ lastOp = "stopTimer" => returned' = NULL]_vars

\* a timer that had run and was stopped was stopped once more
C12_Witness ==
  /\ lastOp = "stopTimer"
  /\ returned = NULL
  /\ timerText # NULL /\ timerText > 0
  /\ startTime = NULL

\* the names saveScore leaves in lastOp
SaveOps == {"saveScore", "saveScore, storage failing"}

\* C13: a storage that throws on read or write, or holds malformed data, at
\* load or at record, never makes a handler throw; saveScore leaves the game
\* as it was, endGame still ends with the start button enabled and guessing
\* disabled, and the next startGame opens round 0.
C13_StorageFailureContained ==
  [][/\ ~threw'
     /\ lastOp' \in SaveOps
          => UNCHANGED <<currentIndex, correctCount, guessingEnabled, startBtnDisabled,
                         timerInterval, startTime, intervals, timeouts>>
     /\ endCount' = endCount + 1 => (~startBtnDisabled' /\ ~guessingEnabled')
     /\ gamesStarted' # gamesStarted
          => (currentIndex' = 0 /\ correctCount' = 0 /\ guessingEnabled')]_vars

\* the load and a record failed on unparseable data, a game was played to its
\* end and a second one has just started
C13_Witness ==
  /\ storage = Garbage
  /\ highScoreText.kind = "Unavailable"
  /\ records = 1
  /\ gamesStarted = 2
  /\ lastOp = "startGame"
  /\ currentIndex = 0 /\ guessingEnabled

\* C14: the callback scheduled after the guess for the last catalog index is
\* the round advance (startRound) that is scheduled after every other guess,
\* and endGame is reached through startRound.
C14_LastAdvanceIsStartRound ==
  \A i \in 1..Len(timeouts) : timeouts[i].fn = "startRound"

\* C14 as the code has it: every accepted guess schedules one callback after
\* the same delay, startRound while locations are left and endGame itself after
\* the last one; endGame runs only as that callback, never from startRound.
C14_LastAdvanceIsEndGameCallback ==
  [][/\ (lastOp' = "handleGuess" /\ ~threw')
          => timeouts' = Append(timeouts,
                                [fn |-> IF currentIndex + 1 < NumLocations
                                        THEN "startRound" ELSE "endGame",
                                 due |-> now + ROUND_ADVANCE_DELAY])
     /\ endCount' = endCount + 1
          => (timeouts # <<>> /\ Head(timeouts).fn = "endGame" /\ lastOp' = "endGame")
     /\ lastOp' = "startRound" => endCount' = endCount]_vars

\* the last guess was evaluated and its endGame callback is pending
C14_Witness ==
  /\ lastOp = "handleGuess"
  /\ currentIndex = NumLocations
  /\ Len(timeouts) = 1
  /\ timeouts[1].fn = "endGame"

\* C15: each catalog index is evaluated at most once in a game, and no guess
\* is evaluated between the acceptance of a guess and the firing of the
\* callback it scheduled.
C15_NoOverlappingEvaluations ==
  [][/\ lastOp' = "handleGuess"
          => (timeouts = <<>> /\ currentIndex \notin Evaluated /\ ~threw')
     /\ Len(timeouts') <= 1
     /\ \A i, j \in 1..Len(guessLog') :
          guessLog'[i][1] = guessLog'[j][1] => i = j]_vars

\* all five rounds were evaluated and a click during the last delay was ignored
C15_Witness ==
  /\ lastOp = "ignoredClick"
  /\ Len(guessLog) = NumLocations
  /\ Len(timeouts) = 1

\* C16: at most one interval is registered in any state, the one timerInterval
\* holds; startTimer cancels a registered interval before it registers its own.
C16_OneIntervalAtMost ==
  /\ Cardinality(intervals) <= 1
  /\ intervals = IF Truthy(timerInterval) THEN {timerInterval} ELSE {}

\* the timer was started a second time while its first interval was registered
C16_Witness ==
  /\ lastOp = "startTimer"
  /\ timerInterval = 2
  /\ timerText = NULL
  /\ intervals = {2}

\* C17: when the stored data is malformed (unparseable, or no array), a record
\* whose storage works leaves exactly the new entry stored and displayed.
C17_MalformedFallsBackToEmpty ==
  [][(lastOp' = "saveScore" /\ variant = "persisted"
      /\ storage.kind \in {"garbage", "object"})
       => /\ storage'.kind = "array"
          /\ Len(storage'.value) = 1
          /\ storage'.value[1].timestamp = now
          /\ highScoreText' = renderScoreBoard(storage'.value)]_vars

\* C17 for stored JSON that parses but is no array
C17_NonArrayFallsBackToEmpty ==
  [][(lastOp' = "saveScore" /\ variant = "persisted" /\ storage.kind = "object")
       => /\ storage'.kind = "array"
          /\ Len(storage'.value) = 1
          /\ storage'.value[1].timestamp = now
          /\ highScoreText' = renderScoreBoard(storage'.value)]_vars

\* a and b rank equal: as many correct answers, and the same time or no time
Tie(a, b) == a.correct = b.correct /\ a.timeSeconds = b.timeSeconds

\* C18: entries that rank equal stand in insertion order after every record,
\* and of a kept and a cut-off entry that rank equal the cut-off one is the
\* newer.
C18_StableForTies ==
  /\ \A i, j \in 1..Len(Leaderboard) :
       (i < j /\ Tie(Leaderboard[i], Leaderboard[j]))
         => Leaderboard[i].timestamp <= Leaderboard[j].timestamp
  /\ \A d \in dropped : \A k \in Entries(Leaderboard) :
       Tie(d, k) => k.timestamp < d.timestamp

\* the in-memory board is full and the new entry, which ties with the last
\* kept one, was cut off
C18_Witness ==
  /\ variant = "memory"
  /\ Len(highScores) = MemoryCapacity
  /\ \E d \in dropped :
       /\ Tie(d, highScores[MemoryCapacity])
       /\ d.timestamp > highScores[MemoryCapacity].timestamp
       /\ d.timeSeconds = NULL

\* C19: while the start button is enabled no startRound or endGame callback is
\* pending and guessing is disabled; a game starts with no callback pending, so
\* no callback of an earlier game fires in it.
C19_NoCallbackAcrossGames ==
  [][/\ ~startBtnDisabled => (timeouts = <<>> /\ ~guessingEnabled)
     /\ ~startBtnDisabled' => (timeouts' = <<>> /\ ~guessingEnabled')
     /\ gamesStarted' # gamesStarted => (timeouts = <<>> /\ timeouts' = <<>>)]_vars

\* the second game is over and the start button is enabled again
C19_Witness ==
  /\ ~startBtnDisabled
  /\ lastOp = "endGame"
  /\ gamesStarted = 2
  /\ timeouts = <<>>

\* C20: endGame runs at most once per started game, only when all
\* len(LOCATIONS) rounds were evaluated and never from startRound; a game starts
\* only after the previous one ran endGame once.
C20_EndGameOncePerGame ==
  [][/\ endCount' <= 1
     /\ endCount' = endCount + 1
          => /\ currentIndex = NumLocations /\ Len(guessLog) = NumLocations
             /\ endCount = 0
             /\ lastOp' = "endGame"
     /\ lastOp' = "startRound" => (currentIndex < NumLocations /\ endCount' = endCount)
     /\ (gamesStarted' # gamesStarted /\ gamesStarted > 0) => endCount = 1]_vars

\* the second game has run its endGame after five evaluated rounds
C20_Witness ==
  /\ endCount = 1
  /\ gamesStarted = 2
  /\ lastOp = "endGame"
  /\ Evaluated = 0..(NumLocations - 1)

\* a game was started and its endGame has not run
InProgress == gamesStarted > 0 /\ endCount = 0

\* startTime is recorded and exactly the interval of timerInterval is registered
TimerRunning ==
  /\ Truthy(startTime)
  /\ Truthy(timerInterval)
  /\ intervals = {timerInterval}

\* no start instant and no interval
TimerStopped ==
  /\ startTime = NULL
  /\ timerInterval = NULL
  /\ intervals = {}

\* C21: the timer runs in every state of a game in progress and is stopped in
\* every other state; the value endGame gets from stopTimer is the elapsed time,
\* never null, and every entry a game puts on the leaderboard has a time.
C21_TimerRunsExactlyInGame ==
  [][/\ IF InProgress THEN TimerRunning ELSE TimerStopped
     /\ IF InProgress' THEN TimerRunning' ELSE TimerStopped'
     /\ lastOp' = "endGame"
          => (returned' # NULL /\ returned' = now - startTime /\ returned' >= 0)
     /\ \A e \in Entries(highScores') \cup dropped' : e.timeSeconds # NULL
     /\ storage' = storage]_vars

\* the in-memory variant has ended its second game: two entries, both timed,
\* and the timer is stopped
C21_Witness ==
  /\ variant = "memory"
  /\ lastOp = "endGame"
  /\ Len(highScores) = 2
  /\ returned # NULL
  /\ TimerStopped

\* fairness on EndGameFires is fairness on EndGameTimeout
EndGameFiresIsEndGameTimeout ==
  [][/\ EndGameFires <=> EndGameTimeout
     /\ EndGameDue <=> ENABLED <<EndGameTimeout>>_vars
     /\ EndGameDue <=> ENABLED <<EndGameFires>>_endCount]_vars

\* C22: with the clock advancing, due callbacks firing and the player guessing
\* whenever guessing is enabled, every state of a game in progress leads to
\* endGame having run with the start button enabled again; so no game stays
\* forever in a state with guessing disabled.
C22_EveryGameEnds ==
  InProgress ~> (endCount = 1 /\ ~startBtnDisabled /\ ~guessingEnabled)

\* the first game is over: five rounds evaluated, endGame has run, the start
\* button is enabled
C22_Witness ==
  /\ gamesStarted = 1
  /\ endCount = 1
  /\ Len(guessLog) = NumLocations
  /\ ~startBtnDisabled
  /\ timeouts = <<>>

====
